---- MODULE Spec2Model ----
(***************************************************************************)
(* Lighting and render-compositing engine of the 3D desk portfolio:        *)
(*   - InteractionManager's hint scheduler (idle timer, outline fades),    *)
(*     driven by setTimeout and by GSAP 3 tweens (README: GSAP 3.12.2,     *)
(*     whose default is overwrite: false, so tweens of one property        *)
(*     coexist and render in creation order on every ticker tick);         *)
(*   - Portfolio3D's frame callback and LightingSystem's per-frame update; *)
(*   - SceneManager's post-processing chain (three.js r128 EffectComposer,  *)
(*     UnrealBloomPass, OutlinePass), its render and its resize handler.    *)
(* Times are in milliseconds, edge strengths in thousandths.               *)
(***************************************************************************)
EXTENDS Integers, Sequences, FiniteSets, TLC

\* ---------------------------------------------------------------- bounds
\* Time between two display frames (one step of model time).
FrameMs == 500
\* Interactive objects the raycaster can hit.
NumObjects == 2
\* User input events handled between two display frames.
MaxEventsPerFrame == 1
\* Timeout handles the host hands out (a handle is reused once it is neither
\* pending nor held in hintTimer; browsers never reuse one that is).
MaxTimerIds == 3
\* Glare materials the object factories may create.
MaxMaterials == 2
\* Places the camera can be at (the zero vector is not one of them).
NumCamPositions == 2
\* Minutes between the wall-clock readings the frame loop is run at (it is also
\* run at the hour of every keyframe).
ClockStep == 180
\* Sizes the browser window can take.
NumViewports == 2
\* Number of objects the factories add to the scene.
MaxMeshes == 2

\* ------------------------------------------------------- program constants
HINT_DELAY == 5000
FadeInMs == 2000
FadeOutMs == 1000
ZoomMs == 1500
\* edgeStrength target of the fade-in, and the value the pass is created with
EdgeTarget == 2000
InitialEdge == 2000

Milli == 10 * 100
NoObj == 0
NoTimer == 0
NotPending == -1
NoSel == -1
Objects == 1..NumObjects
TimerIds == 1..MaxTimerIds

VARIABLES
    phase,          \* "boot" before Portfolio3D.init wires the managers, then "running"
    passAvailable,  \* THREE.OutlinePass and the composer classes were loaded
    wired,          \* InteractionManager.outlinePass is set
    enabled,        \* outlinePass.enabled
    edgeStrength,   \* outlinePass.edgeStrength
    hintActive,     \* InteractionManager.hintActive
    hintTimer,      \* InteractionManager.hintTimer (a timeout handle, stale once fired)
    timeouts,       \* the host's timeout table: handle -> ms remaining, or NotPending
    zoomed,         \* InteractionManager.currentZoomedObject
    controlsEnabled,\* controls.enabled
    tweens,         \* GSAP's live tweens, in creation order
    tickDue,        \* a display frame began and GSAP's ticker has not run in it yet
    events,         \* input events handled since the frame began
    last,           \* history: the handler that ran last
    cancelled,      \* history: that handler cleared a timeout that was still pending
    selAt,          \* history: edgeStrength at a selection made mid fade-in, until
                    \* that selection's fade-out has ended; NoSel otherwise
    sinceWire       \* history: ms since setOutlinePass wired the pass, up to HINT_DELAY

hintVars == <<phase, passAvailable, wired, enabled, edgeStrength, hintActive, hintTimer,
              timeouts, zoomed, controlsEnabled, tweens, tickDue, events, last,
              cancelled, selAt, sinceWire>>

VARIABLES
    pc,             \* where Portfolio3D is: "create" while the factories run,
                    \* "initRender" before init's forced render, then "idle"
                    \* between frame callbacks and the step of animate() to run
    animDue,        \* the display frame's animate() callback has not run yet
    lights,         \* LightingSystem.lights: the rig
    uniforms,       \* uniforms of every glare material ever returned, by id
    created,        \* how many glare materials createGlareMaterial has returned
    glareMaterials, \* LightingSystem.glareMaterials: the ids it tracks
    camera,         \* camera.position
    frameLog,       \* history: the steps run since the display frame began
    updates,        \* history: wall-clock time of the last day/night update and
                    \* how many updates in a row ran at it (NoTime after a change)
    keyframes       \* LightingSystem.dayNightKeyframes

lightVars == <<pc, animDue, lights, uniforms, created, glareMaterials, camera, frameLog,
               updates, keyframes>>

VARIABLES
    scene,          \* SceneManager after init: post (what setupPostProcessing
                    \* left: is there a composer, its pass chain, is there an
                    \* outline pass, the uniforms its overlayMaterial declares,
                    \* was the console warning logged), the renderer's pixelRatio,
                    \* environment (scene.environment) and children (the meshes
                    \* with an environment-lit material added to the scene)
    viewport,       \* window.innerWidth x window.innerHeight, as one of Viewports
    size,           \* aspect: the viewport camera.aspect is of; canvas, target,
                    \* bloom, outline: the size of the renderer's drawing buffer, of
                    \* the composer's render targets (the base pass draws into
                    \* them) and of the two passes' internal targets
    drawn,          \* history: what the frame's last SceneManager.render did
    threw,          \* history: a render has thrown
    requested,      \* a requestAnimationFrame callback is registered for the next frame
    fragment        \* a fragment of a glare plane under the fragment shader: the
                    \* uniforms it is shaded under and the alpha written

sceneVars == <<scene, viewport, size, drawn, threw, requested, fragment>>

vars == <<hintVars, lightVars, sceneVars>>

\* ------------------------------------------------------------------ helpers
Max(a, b) == IF a > b THEN a ELSE b
Min(a, b) == IF a < b THEN a ELSE b

Pending(tm) == {id \in TimerIds : tm[id] # NotPending}

\* The hint state the handlers read and write, passed through a handler's calls.
HintState == [wired |-> wired, enabled |-> enabled, edge |-> edgeStrength,
              active |-> hintActive, hintTimer |-> hintTimer, timeouts |-> timeouts,
              zoomed |-> zoomed, controls |-> controlsEnabled, tweens |-> tweens]

\* A new tween. stale is history, of a reset tween: zoomToObject has been
\* called since the tween was created.
Tween(kind) ==
    [kind |-> kind, elapsed |-> 0, init |-> FALSE, from |-> 0, stale |-> FALSE]

Duration(kind) ==
    CASE kind = "fadeIn" -> FadeInMs
      [] kind = "fadeOut" -> FadeOutMs
      [] OTHER -> ZoomMs

\* GSAP eases, in thousandths, of a progress p in thousandths.
\* power1.out = 1 - (1 - p)^2, power1.in = p^2.
Power1Out(p) == Milli - ((Milli - p) * (Milli - p)) \div Milli
Power1In(p) == (p * p) \div Milli

Eased(kind, p) == IF kind = "fadeIn" THEN Power1Out(p) ELSE Power1In(p)

\* ------------------------------------------------ InteractionManager methods
\* setTimeout hands out a handle that is not pending and not the one held.
FreeIds(s) == {id \in TimerIds : id \notin Pending(s.timeouts) /\ id # s.hintTimer}
CanArm(s) == FreeIds(s) # {}
NewId(s) == CHOOSE id \in FreeIds(s) : \A o \in FreeIds(s) : id <= o

\* clearTimeout(handle): a handle that already fired or was cleared is ignored.
ClearTimeout(tm, id) == IF id \in TimerIds THEN [tm EXCEPT ![id] = NotPending] ELSE tm

startHintTimer_HalfDelay(s) ==
    LET id == NewId(s)
        cleared == IF s.hintTimer # NoTimer THEN ClearTimeout(s.timeouts, s.hintTimer)
                   ELSE s.timeouts
    IN [s EXCEPT !.timeouts = [cleared EXCEPT ![id] = HINT_DELAY \div 2], !.hintTimer = id]

startHintTimer_NoClear(s) ==
    LET id == NewId(s)
    IN [s EXCEPT !.timeouts = [s.timeouts EXCEPT ![id] = HINT_DELAY], !.hintTimer = id]

startHintTimer(s) ==
    LET id == NewId(s)
        cleared == IF s.hintTimer # NoTimer THEN ClearTimeout(s.timeouts, s.hintTimer)
                   ELSE s.timeouts
    IN [s EXCEPT !.timeouts = [cleared EXCEPT ![id] = HINT_DELAY], !.hintTimer = id]

showHint_NoEdgeReset(s) ==
    IF ~s.wired \/ s.zoomed # NoObj THEN s
    ELSE [s EXCEPT !.active = TRUE, !.enabled = TRUE,
                   !.tweens = Append(s.tweens, Tween("fadeIn"))]

showHint(s) ==
    IF ~s.wired \/ s.zoomed # NoObj THEN s
    ELSE [s EXCEPT !.active = TRUE, !.edge = 0, !.enabled = TRUE,
                   !.tweens = Append(s.tweens, Tween("fadeIn"))]

hideHint(s) ==
    IF ~s.wired \/ ~s.active THEN s
    ELSE [s EXCEPT !.tweens = Append(s.tweens, Tween("fadeOut"))]

zoomToObject(s, obj) ==
    [s EXCEPT !.zoomed = obj, !.controls = FALSE,
              !.tweens = [i \in DOMAIN s.tweens |->
                             IF s.tweens[i].kind = "reset"
                             THEN [s.tweens[i] EXCEPT !.stale = TRUE]
                             ELSE s.tweens[i]]]

resetCamera(s) ==
    IF s.zoomed # NoObj THEN [s EXCEPT !.tweens = Append(s.tweens, Tween("reset"))]
    ELSE s

\* onComplete callbacks of the tweens
fadeOutComplete_PassOnly(s) == [s EXCEPT !.enabled = FALSE]
fadeOutComplete(s) == [s EXCEPT !.enabled = FALSE, !.active = FALSE]
resetComplete_NoRearm(s) == [s EXCEPT !.controls = TRUE, !.zoomed = NoObj]
resetComplete(s) == startHintTimer([s EXCEPT !.controls = TRUE, !.zoomed = NoObj])

\* ----------------------------------------------------------- GSAP's ticker
\* One tween rendered dt ms further: its start value is read on its first
\* render, the property is written, and onComplete runs when it ends.
\* s.tweens collects the tweens that stay alive.
RenderTween(s, tw, dt) ==
    LET dur == Duration(tw.kind)
        el == Min(dur, tw.elapsed + dt)
        from == IF tw.init THEN tw.from ELSE s.edge
        to == IF tw.kind = "fadeIn" THEN EdgeTarget ELSE 0
        p == (el * Milli) \div dur
        val == IF el >= dur THEN to
               ELSE from + ((to - from) * Eased(tw.kind, p)) \div Milli
        written == IF tw.kind = "reset" THEN s ELSE [s EXCEPT !.edge = val]
        alive == [tw EXCEPT !.elapsed = el, !.init = TRUE,
                            !.from = IF tw.kind = "reset" THEN 0 ELSE from]
    IN IF el < dur THEN [written EXCEPT !.tweens = Append(written.tweens, alive)]
       ELSE CASE tw.kind = "fadeOut" -> fadeOutComplete(written)
              [] tw.kind = "reset" -> resetComplete(written)
              [] OTHER -> written

RECURSIVE RenderAll(_, _, _)
RenderAll(s, todo, dt) ==
    IF todo = <<>> THEN s
    ELSE RenderAll(RenderTween(s, Head(todo), dt), Tail(todo), dt)

\* --------------------------------------------------------------- the state
Store(s) ==
    /\ enabled' = s.enabled
    /\ edgeStrength' = s.edge
    /\ hintActive' = s.active
    /\ hintTimer' = s.hintTimer
    /\ timeouts' = s.timeouts
    /\ zoomed' = s.zoomed
    /\ controlsEnabled' = s.controls
    /\ tweens' = s.tweens

\* History of a handler that took the hint state from HintState to s.
Cancels(s) == \E id \in Pending(timeouts) : id \notin Pending(s.timeouts)

OfKind(tw, kind) == {i \in DOMAIN tw : tw[i].kind = kind}
FadeIns == OfKind(tweens, "fadeIn")
FadeOuts == OfKind(tweens, "fadeOut")
MidFadeIn == hintActive /\ FadeIns # {} /\ 0 < edgeStrength /\ edgeStrength < EdgeTarget

HintInit ==
    /\ phase = "boot"
    /\ passAvailable \in BOOLEAN
    /\ wired = FALSE
    /\ enabled = FALSE
    /\ edgeStrength = InitialEdge
    /\ hintActive = FALSE
    /\ hintTimer = NoTimer
    /\ timeouts = [id \in TimerIds |-> NotPending]
    /\ zoomed = NoObj
    /\ controlsEnabled = TRUE
    /\ tweens = <<>>
    /\ tickDue = FALSE
    /\ events = 0
    /\ last = "init"
    /\ cancelled = FALSE
    /\ selAt = NoSel
    /\ sinceWire = 0

\* Portfolio3D.init: the InteractionManager is built and, when the scene has an
\* outline pass, setOutlinePass wires it and starts the idle timer.
setOutlinePass_NoTimer(s) == [s EXCEPT !.wired = TRUE]
setOutlinePass(s) == startHintTimer([s EXCEPT !.wired = TRUE])

Wire ==
    /\ phase = "boot"
    /\ phase' = "running"
    /\ wired' = passAvailable
    /\ Store(IF passAvailable THEN setOutlinePass(HintState) ELSE HintState)
    /\ last' = "wire"
    /\ cancelled' = FALSE
    /\ UNCHANGED <<passAvailable, tickDue, events, selAt, sinceWire>>

\* onMouseClick with a ray that hits interactive object obj.
ClickObject(obj) ==
    /\ phase = "running"
    /\ events < MaxEventsPerFrame
    /\ CanArm(HintState)
    /\ LET s1 == startHintTimer(hideHint(HintState))
           s2 == IF s1.zoomed # NoObj /\ obj = s1.zoomed THEN resetCamera(s1)
                 ELSE zoomToObject(s1, obj)
       IN Store(s2) /\ cancelled' = Cancels(s2)
    /\ events' = events + 1
    /\ last' = "select"
    /\ selAt' = IF MidFadeIn /\ FadeOuts = {} THEN edgeStrength ELSE selAt
    /\ UNCHANGED <<phase, passAvailable, wired, tickDue, sinceWire>>

ClickEmpty_HidesHint ==
    /\ phase = "running"
    /\ events < MaxEventsPerFrame
    /\ CanArm(HintState)
    /\ Store(resetCamera(startHintTimer(hideHint(HintState))))
    /\ events' = events + 1
    /\ last' = "clickEmpty"
    /\ cancelled' = FALSE
    /\ UNCHANGED <<phase, passAvailable, wired, tickDue, selAt, sinceWire>>

\* onMouseClick with a ray that hits nothing; the Escape key does the same.
ClickEmpty ==
    /\ phase = "running"
    /\ events < MaxEventsPerFrame
    /\ Store(resetCamera(HintState))
    /\ events' = events + 1
    /\ last' = "clickEmpty"
    /\ cancelled' = FALSE
    /\ UNCHANGED <<phase, passAvailable, wired, tickDue, selAt, sinceWire>>

\* The callback of a timeout whose delay has run out: () => this.showHint().
TimerFire(id) ==
    /\ phase = "running"
    /\ timeouts[id] = 0
    /\ Store(showHint([HintState EXCEPT !.timeouts = [timeouts EXCEPT ![id] = NotPending]]))
    /\ last' = "timerFire"
    /\ cancelled' = FALSE
    /\ UNCHANGED <<phase, passAvailable, wired, tickDue, events, selAt, sinceWire>>

\* GSAP's ticker callback: every live tween advances by the frame time.
GsapTick ==
    /\ phase = "running"
    /\ tickDue
    /\ \/ tweens = <<>>
       \/ CanArm(HintState)
    /\ LET s == RenderAll([HintState EXCEPT !.tweens = <<>>], tweens, FrameMs)
       IN /\ Store(s)
          /\ cancelled' = Cancels(s)
          /\ selAt' = IF s.active THEN selAt ELSE NoSel
    /\ tickDue' = FALSE
    /\ last' = "tick"
    /\ UNCHANGED <<phase, passAvailable, wired, events, sinceWire>>

\* Time passes to the next display frame; due timeouts and the pending tick
\* run first.
Advance ==
    /\ phase = "running"
    /\ ~tickDue
    /\ \A id \in TimerIds : timeouts[id] # 0
    /\ timeouts' = [id \in TimerIds |->
                      IF timeouts[id] = NotPending THEN NotPending
                      ELSE Max(0, timeouts[id] - FrameMs)]
    /\ tickDue' = TRUE
    /\ events' = 0
    /\ last' = "advance"
    /\ cancelled' = FALSE
    /\ sinceWire' = IF wired THEN Min(HINT_DELAY, sinceWire + FrameMs) ELSE sinceWire
    /\ UNCHANGED <<phase, passAvailable, wired, enabled, edgeStrength, hintActive,
                   hintTimer, zoomed, controlsEnabled, tweens, selAt>>

HintNext ==
    \/ Wire
    \/ \E obj \in Objects : ClickObject(obj)
    \/ ClickEmpty
    \/ \E id \in TimerIds : TimerFire(id)
    \/ GsapTick
    \/ Advance


\* ------------------------------------------------------------ LightingSystem
\* Numbers are binary fixed point: a double is a multiple of 1/F64Scale, and a
\* single (an element of a Float32Array) a multiple of F32Step/F64Scale.
F64Scale == 2^14
F32Step == 2^7
\* A decimal literal given in thousandths, as the nearest double.
Dec(milli) == (milli * F64Scale + 500) \div 1000
\* Storing a double into a Float32Array rounds it to the nearest single.
Fround(x) == ((x + F32Step \div 2) \div F32Step) * F32Step
\* Color.setHex: each byte of the hex colour over 255 (three.js r128).
setHex(rgb) == [c \in 1..3 |-> (rgb[c] * F64Scale + 127) \div 255]

MinutesPerHour == 60
MinutesPerDay == 24 * MinutesPerHour
Origin == 0
NoMat == [cam |-> -1, intens |-> <<>>]
NoTime == -1
MatIds == 1..MaxMaterials
CamPositions == 1..NumCamPositions
\* setupCamera places the camera at PORTFOLIO_CONFIG.camera.initialPosition.
InitialCam == 1

dayNightKeyframes_OpenLoop == <<
    [hour |-> 0,  color |-> <<26, 26, 46>>,    intensity |-> Dec(300)],
    [hour |-> 10, color |-> <<255, 238, 221>>, intensity |-> Dec(1200)],
    [hour |-> 24, color |-> <<26, 26, 46>>,    intensity |-> Dec(350)] >>

dayNightKeyframes == <<
    [hour |-> 0,  color |-> <<26, 26, 46>>,    intensity |-> Dec(300)],
    [hour |-> 5,  color |-> <<42, 42, 78>>,    intensity |-> Dec(400)],
    [hour |-> 7,  color |-> <<255, 170, 119>>, intensity |-> Dec(800)],
    [hour |-> 10, color |-> <<255, 238, 221>>, intensity |-> Dec(1200)],
    [hour |-> 16, color |-> <<255, 238, 221>>, intensity |-> Dec(1100)],
    [hour |-> 19, color |-> <<255, 153, 102>>, intensity |-> Dec(700)],
    [hour |-> 21, color |-> <<26, 26, 46>>,    intensity |-> Dec(350)],
    [hour |-> 24, color |-> <<26, 26, 46>>,    intensity |-> Dec(300)] >>

\* new Date(): the wall-clock readings of the runs, in minutes since 0:00.
ClockTimes ==
    {m \in 0..(MinutesPerDay - 1) :
        \/ m % ClockStep = 0
        \/ \E i \in DOMAIN dayNightKeyframes : m = dayNightKeyframes[i].hour * MinutesPerHour}

\* setupLights: the rig after LightingSystem.init. object is the identity of
\* the light object: the n-th light setupLights constructs.
setupLights ==
    [ambient    |-> [object |-> 1, color |-> setHex(<<26, 26, 36>>),
                     intensity |-> Dec(350)],
     hemisphere |-> [object |-> 2, color |-> setHex(<<135, 174, 203>>),
                     intensity |-> Dec(250)],
     main       |-> [object |-> 3, color |-> setHex(<<255, 238, 221>>),
                     intensity |-> Dec(220), position |-> <<-5, 8, 3>>],
     fill       |-> [object |-> 4, color |-> setHex(<<170, 204, 255>>),
                     intensity |-> Dec(500), position |-> <<5, 4, 2>>],
     rim        |-> [object |-> 5, color |-> setHex(<<255, 255, 255>>),
                     intensity |-> Dec(200), position |-> <<0, 4, -6>>]]

\* createGlareMaterial: the uniforms of a new material.
NewUniforms ==
    [cam |-> Origin, intens |-> <<Fround(Dec(220)), Fround(Dec(800)), Fround(0), Fround(0)>>]

\* The keyframe scan: the first i with kf[i].hour <= hour < kf[i+1].hour, or
\* the pair (first, last) when there is none. t is in minutes.
Bracket_NoScan(kf, t) == <<1, Len(kf)>>

Bracket(kf, t) ==
    LET hits == {i \in 1..(Len(kf) - 1) :
                    t >= kf[i].hour * MinutesPerHour /\ t < kf[i + 1].hour * MinutesPerHour}
    IN IF hits = {} THEN <<1, Len(kf)>>
       ELSE LET i == CHOOSE j \in hits : \A k \in hits : j <= k IN <<i, i + 1>>

\* The interpolation factor (hour - start.hour) / (end.hour - start.hour).
Factor_Zero(kf, t) == 0

Factor(kf, t) ==
    LET b == Bracket(kf, t)
    IN ((t - kf[b[1]].hour * MinutesPerHour) * F64Scale)
           \div ((kf[b[2]].hour - kf[b[1]].hour) * MinutesPerHour)

\* Color.lerp and the scalar interpolation: a + (b - a) * f.
Mix_Step(a, b, f) == IF f < F64Scale THEN a ELSE b
Mix(a, b, f) == a + ((b - a) * f) \div F64Scale
lerp(ca, cb, f) == [c \in 1..3 |-> Mix(ca[c], cb[c], f)]

\* lights.main.color.copy(_startColor).lerp(_endColor, t)
SunColor_NoCopy(cur, start, end, f) == lerp(cur, end, f)
SunColor(cur, start, end, f) == lerp(start, end, f)

\* uLightIntensities.value[0] = mainIntensity, for every tracked material.
PropagateSun_Slot1(u, tracked, sun) ==
    [id \in MatIds |->
        IF \E i \in DOMAIN tracked : tracked[i] = id
        THEN [u[id] EXCEPT !.intens[2] = Fround(sun)] ELSE u[id]]

PropagateSun(u, tracked, sun) ==
    [id \in MatIds |->
        IF \E i \in DOMAIN tracked : tracked[i] = id
        THEN [u[id] EXCEPT !.intens[1] = Fround(sun)] ELSE u[id]]

\* updateDayNightCycle at wall-clock minute t: the rig it leaves.
DayNightLights_NewSun(L, t) ==
    [L EXCEPT !.main = [setupLights.main EXCEPT !.object = 1 + Cardinality(DOMAIN L)]]

DayNightLights_SunOnly(L, t) ==
    LET kf == keyframes
        b == Bracket(kf, t)
        f == Factor(kf, t)
    IN [L EXCEPT !.main.color = SunColor(L.main.color, setHex(kf[b[1]].color),
                                         setHex(kf[b[2]].color), f),
                 !.main.intensity = Mix(kf[b[1]].intensity, kf[b[2]].intensity, f)]

DayNightLights(L, t) ==
    LET kf == keyframes
        b == Bracket(kf, t)
        f == Factor(kf, t)
        sun == Mix(kf[b[1]].intensity, kf[b[2]].intensity, f)
    IN [L EXCEPT !.main.color = SunColor(L.main.color, setHex(kf[b[1]].color),
                                         setHex(kf[b[2]].color), f),
                 !.main.intensity = sun,
                 !.ambient.intensity = Dec(200) + (sun * Dec(250)) \div F64Scale,
                 !.hemisphere.intensity = Dec(100) + (sun * Dec(250)) \div F64Scale]

\* updateGlare: uCameraPosition.value.copy(camera.position) for every tracked one.
updateGlare_SkipLast(u, tracked, cam) ==
    [id \in MatIds |->
        IF \E i \in 1..(Len(tracked) - 1) : tracked[i] = id
        THEN [u[id] EXCEPT !.cam = cam] ELSE u[id]]

updateGlare(u, tracked, cam) ==
    [id \in MatIds |->
        IF \E i \in DOMAIN tracked : tracked[i] = id
        THEN [u[id] EXCEPT !.cam = cam] ELSE u[id]]

\* -------------------------------------------- the glare fragment shader
\* GLSL floats in units of 1/Unit; NaN is the one non-number. pow's exponent
\* is kept in halves (fresnelPower 2.5 is 5).
Unit == 2^10
NaN == -(2^30)
Fix(milli) == (milli * Unit + 500) \div 1000
IsNaN(x) == x = NaN

\* What the GPU yields where GLSL leaves the result undefined (a division by
\* zero, pow of zero to a power that is not positive): a NaN, which every
\* later operation hands on, or zero.
GPUs == {"nan", "zero"}
Undefined(gpu) == IF gpu = "nan" THEN NaN ELSE 0

add(a, b) == IF IsNaN(a) \/ IsNaN(b) THEN NaN ELSE a + b
sub(a, b) == IF IsNaN(a) \/ IsNaN(b) THEN NaN ELSE a - b
mul(a, b) == IF IsNaN(a) \/ IsNaN(b) THEN NaN ELSE (a * b) \div Unit
div(gpu, a, b) ==
    IF IsNaN(a) \/ IsNaN(b) THEN NaN
    ELSE IF b = 0 THEN Undefined(gpu) ELSE (a * Unit) \div b
max(a, b) == IF IsNaN(a) \/ IsNaN(b) THEN NaN ELSE Max(a, b)
min(a, b) == IF IsNaN(a) \/ IsNaN(b) THEN NaN ELSE Min(a, b)
clamp(x, lo, hi) == min(max(x, lo), hi)

RECURSIVE SqrtBetween(_, _, _)
SqrtBetween(n, lo, hi) ==
    IF lo >= hi THEN lo
    ELSE LET mid == (lo + hi + 1) \div 2
         IN IF mid * mid <= n THEN SqrtBetween(n, mid, hi) ELSE SqrtBetween(n, lo, mid - 1)
ISqrt(n) == SqrtBetween(n, 0, Min(n, 2^15))
sqrt(gpu, x) ==
    IF IsNaN(x) THEN NaN ELSE IF x < 0 THEN Undefined(gpu) ELSE ISqrt(x * Unit)

RECURSIVE PowInt(_, _)
PowInt(x, n) ==
    IF n = 0 THEN Unit
    ELSE LET half == PowInt(x, n \div 2)
             square == mul(half, half)
         IN IF n % 2 = 1 THEN mul(square, x) ELSE square
pow(gpu, x, halves) ==
    IF IsNaN(x) THEN NaN
    ELSE IF x < 0 \/ (x = 0 /\ halves <= 0) THEN Undefined(gpu)
    ELSE mul(PowInt(x, halves \div 2), IF halves % 2 = 1 THEN sqrt(gpu, x) ELSE Unit)

vec3(x, y, z) == <<x * Unit, y * Unit, z * Unit>>
vsub(a, b) == [c \in 1..3 |-> sub(a[c], b[c])]
vadd(a, b) == [c \in 1..3 |-> add(a[c], b[c])]
scale(a, k) == [c \in 1..3 |-> mul(a[c], k)]
dot(a, b) == add(add(mul(a[1], b[1]), mul(a[2], b[2])), mul(a[3], b[3]))
length(a) ==
    IF \E c \in 1..3 : IsNaN(a[c]) THEN NaN
    ELSE ISqrt(a[1] * a[1] + a[2] * a[2] + a[3] * a[3])
normalize(gpu, a) == [c \in 1..3 |-> div(gpu, a[c], length(a))]
Color(rgb) == [c \in 1..3 |-> (rgb[c] * Unit + 127) \div 255]

\* The fragment being shaded: the varyings of a point of the glare plane.
vWorldPosition == vec3(0, 0, 0)
vWorldNormal == vec3(0, 0, 1)
uLightColors == <<Color(<<255, 238, 221>>), Color(<<255, 221, 170>>), Color(<<0, 0, 0>>),
                  Color(<<0, 0, 0>>)>>
LightSlots == 1..4
NoAlpha == -1

\* The loop over the light slots, from slot i on.
RECURSIVE glareColor(_, _, _, _)
glareColor(f, viewDir, normal, i) ==
    IF i \notin LightSlots THEN vec3(0, 0, 0)
    ELSE LET rest == glareColor(f, viewDir, normal, i + 1)
         IN IF IsNaN(f.uLightIntensities[i]) \/ ~(f.uLightIntensities[i] > 0) THEN rest
            ELSE LET toLight == vsub(f.uLightPositions[i], vWorldPosition)
                     lightDir == normalize(f.gpu, toLight)
                     halfDir == normalize(f.gpu, vadd(lightDir, viewDir))
                     spec == pow(f.gpu, max(dot(normal, halfDir), 0),
                                 2 * 10 * f.uGlareSharpness)
                     dist == length(toLight)
                     attenuation ==
                         div(f.gpu, Unit,
                             add(add(Unit, mul(Fix(50), dist)),
                                 mul(mul(Fix(10), dist), dist)))
                 IN vadd(scale(scale(scale(uLightColors[i], spec),
                                     f.uLightIntensities[i]), attenuation), rest)

\* main(): the alpha written to gl_FragColor.
MaxAlpha == Fix(700)
Alpha(f) ==
    LET viewDir == normalize(f.gpu, vsub(f.uCameraPosition, vWorldPosition))
        normal == normalize(f.gpu, vWorldNormal)
        fresnel == pow(f.gpu, sub(Unit, max(dot(viewDir, normal), 0)), f.uFresnelPower)
        sum == glareColor(f, viewDir, normal, 1)
    IN clamp(add(mul(length(sum), f.uGlareIntensity), mul(fresnel, Fix(80))), 0, MaxAlpha)

\* Uniform values a fragment is shaded under: the camera in front of the
\* plane, slot 0 on the window with the sun's intensity, slot 1 wherever
\* updateGlareLightPosition puts it, the options of a createGlareMaterial
\* call (the monitor's, or another sharpness, Fresnel power and intensity).
CameraPoints == {vec3(0, 0, 2), vec3(2, 0, 2), vec3(0, 1, 3)}
LightPoints == {<<Fix(2500), Fix(2000), Fix(-1000)>>, vec3(0, 0, -2), vec3(2, 0, 2)}
SunIntensities == {Fix(220), Fix(1200)}
LampIntensities == {0, Fix(800), 8 * Unit}
GlareIntensities == {Fix(350), 4 * Unit}
GlareSharpnesses == {0, 6}
FresnelPowers == {0, 5}
NoFragment == [shaded |-> FALSE]
Fragments ==
    [shaded : {TRUE},
     gpu : GPUs,
     uCameraPosition : CameraPoints,
     uLightPositions : {<<vec3(-5, 8, 3), p, vec3(0, 0, 0), vec3(0, 0, 0)>> : p \in LightPoints},
     uLightIntensities : {<<a, b, 0, 0>> : a \in SunIntensities, b \in LampIntensities},
     uGlareIntensity : GlareIntensities,
     uGlareSharpness : GlareSharpnesses,
     uFresnelPower : FresnelPowers,
     alpha : {NoAlpha}]

\* ------------------------------------------------------------- SceneManager
\* Which post-processing classes the page has loaded: none of EffectComposer,
\* RenderPass and UnrealBloomPass; those but not OutlinePass; all of them.
Loadouts == {"none", "noOutline", "full"}
\* renderer.setPixelRatio(Math.min(window.devicePixelRatio, 2))
MaxPixelRatio == 2
PixelRatios == 1..MaxPixelRatio
StandardRatio == 1
Viewports == 1..NumViewports
InitialViewport == 1
\* A size: viewport v at k device pixels per CSS pixel; NoSize for a target
\* that does not exist.
Size(v, k) == <<v, k>>
NoSize == <<0, 0>>

\* The uniforms OutlinePass.render assigns before it draws the overlay, in order.
RenderWrites ==
    <<"maskTexture", "edgeTexture1", "edgeTexture2", "patternTexture", "edgeStrength",
      "edgeGlow", "usePatternTexture">>

\* The uniforms the replacement overlayMaterial declares.
overlayUniforms_NoPattern ==
    {"maskTexture", "edgeTexture1", "edgeTexture2", "edgeStrength", "edgeGlow",
     "usePatternTexture"}
overlayUniforms ==
    {"maskTexture", "edgeTexture1", "edgeTexture2", "patternTexture", "edgeStrength",
     "edgeGlow", "usePatternTexture"}
\* Replacements that omit one uniform.
Omissions == {overlayUniforms \ {u} : u \in overlayUniforms}

\* setupPostProcessing with an overlay replacement declaring decl.
setupPostProcessing(loaded, decl) ==
    IF loaded = "none"
    THEN [composer |-> FALSE, passes |-> <<>>, outlinePass |-> FALSE, overlay |-> {},
          warned |-> TRUE]
    ELSE IF loaded = "noOutline"
    THEN [composer |-> TRUE, passes |-> <<"render", "bloom">>, outlinePass |-> FALSE,
          overlay |-> {}, warned |-> FALSE]
    ELSE [composer |-> TRUE, passes |-> <<"render", "bloom", "outline">>,
          outlinePass |-> TRUE, overlay |-> decl, warned |-> FALSE]

\* Sizes after SceneManager.init in viewport v: the camera and the renderer are
\* built from the window, the composer takes the renderer's size and pixel
\* ratio, and addPass sizes each pass to the composer's targets.
InitialSizes(post, v, pr) ==
    [aspect |-> v,
     canvas |-> Size(v, pr),
     target |-> IF post.composer THEN Size(v, pr) ELSE NoSize,
     bloom |-> IF post.composer THEN Size(v, pr) ELSE NoSize,
     outline |-> IF post.outlinePass THEN Size(v, pr) ELSE NoSize]

\* onWindowResize in viewport v: camera.aspect, renderer.setSize,
\* composer.setSize (which sizes its targets and every pass at the pixel
\* ratio), then outlinePass.setSize(innerWidth, innerHeight).
onWindowResize(sz, post, v, pr) ==
    [aspect |-> v,
     canvas |-> Size(v, pr),
     target |-> IF post.composer THEN Size(v, pr) ELSE sz.target,
     bloom |-> IF post.composer THEN Size(v, pr) ELSE sz.bloom,
     outline |-> IF post.outlinePass THEN Size(v, StandardRatio) ELSE sz.outline]

\* What SceneManager.render draws: the renderer without a composer, else the
\* composer's enabled passes. The outline pass, when enabled, renders its mask
\* and edge targets, assigns RenderWrites on the overlay material (a
\* TypeError on a uniform that is not declared) and then draws the overlay.
NoDraw == [path |-> "none", upstream |-> FALSE, overlay |-> FALSE, threw |-> FALSE]

Draw_ComposerOnly(post, passOn) ==
    [path |-> "composer", upstream |-> FALSE, overlay |-> FALSE, threw |-> FALSE]

Draw(post, passOn) ==
    IF ~post.composer
    THEN [path |-> "renderer", upstream |-> FALSE, overlay |-> FALSE, threw |-> FALSE]
    ELSE IF ~(post.outlinePass /\ passOn)
    THEN [path |-> "composer", upstream |-> FALSE, overlay |-> FALSE, threw |-> FALSE]
    ELSE LET missing == \E i \in DOMAIN RenderWrites : RenderWrites[i] \notin post.overlay
         IN [path |-> "composer", upstream |-> TRUE, overlay |-> ~missing,
             threw |-> missing]

\* scene.environment: null in a new THREE.Scene, the PMREM texture once
\* createEnvironmentMap has assigned it.
NoTexture == "null"
createEnvironmentMap_Unassigned == NoTexture
createEnvironmentMap == "pmrem"

\* createFloor adds the one mesh SceneManager builds itself.
FloorMeshes == 1

\* SceneManager.init on a page with one of the loadouts, an overlay replacement
\* declaring one of decls and a display of one of the pixel ratios.
SceneInit(loadouts, decls, ratios) ==
    \E loaded \in loadouts, decl \in decls, pr \in ratios :
        /\ scene = [post |-> setupPostProcessing(loaded, decl), pixelRatio |-> pr,
                    environment |-> createEnvironmentMap, children |-> FloorMeshes]
        /\ viewport = InitialViewport
        /\ size = InitialSizes(scene.post, InitialViewport, pr)
        /\ drawn = NoDraw
        /\ threw = FALSE
        /\ requested = FALSE
        /\ fragment = NoFragment
        /\ passAvailable = scene.post.outlinePass

\* The window takes another size and the resize listener runs.
Resize ==
    /\ pc = "idle"
    /\ \E v \in Viewports \ {viewport} :
           /\ viewport' = v
           /\ size' = onWindowResize(size, scene.post, v, scene.pixelRatio)
    /\ UNCHANGED <<scene, drawn, threw, requested, fragment>>

\* animate(): lightingSystem.update (day/night, then glare), the prop
\* animations (coffee steam, clock), then render.
AnimateOrder_RenderFirst == <<"render", "dayNight", "glare", "animations">>
AnimateOrder == <<"dayNight", "glare", "animations", "render">>

StepAfter(step) ==
    LET i == CHOOSE j \in DOMAIN AnimateOrder : AnimateOrder[j] = step
    IN IF i = Len(AnimateOrder) THEN "idle" ELSE AnimateOrder[i + 1]

LightInitWith(table) ==
    /\ pc = "create"
    /\ animDue = FALSE
    /\ lights = setupLights
    /\ uniforms = [id \in MatIds |-> NoMat]
    /\ created = 0
    /\ glareMaterials = <<>>
    /\ camera = InitialCam
    /\ frameLog = <<>>
    /\ updates = [t |-> NoTime, n |-> 0]
    /\ keyframes = table

LightInit == LightInitWith(dayNightKeyframes)

\* A factory calls createGlareMaterial: the material is tracked and returned.
CreateGlareMaterial ==
    /\ pc \in {"create", "idle"}
    /\ created < MaxMaterials
    /\ created' = created + 1
    /\ uniforms' = [uniforms EXCEPT ![created + 1] = NewUniforms]
    /\ glareMaterials' = Append(glareMaterials, created + 1)
    /\ updates' = [t |-> NoTime, n |-> 0]
    /\ UNCHANGED <<pc, animDue, lights, camera, frameLog, keyframes>>
    /\ UNCHANGED sceneVars

\* Portfolio3D.init after the factories: the managers are wired.
WireManagers ==
    /\ pc = "create"
    /\ Wire
    /\ pc' = "initRender"
    /\ UNCHANGED <<animDue, lights, uniforms, created, glareMaterials, camera, frameLog,
                   updates, keyframes>>
    /\ UNCHANGED sceneVars

\* SceneManager.render: controls.update() may move the camera, then the
\* composer (or the renderer) draws; a throw leaves the caller.
render ==
    /\ \E p \in CamPositions : camera' = p
    /\ drawn' = Draw(scene.post, enabled)
    /\ threw' = (threw \/ drawn'.threw)
    /\ frameLog' = Append(frameLog, IF drawn'.threw THEN "throw" ELSE "render")
    /\ UNCHANGED <<scene, viewport, size>>

\* Portfolio3D.init: the forced render behind the loading screen, then the
\* first animate() call, which registers the next frame's callback first.
InitRender ==
    /\ pc = "initRender"
    /\ render
    /\ pc' = IF drawn'.threw THEN "idle" ELSE AnimateOrder[1]
    /\ requested' = ~drawn'.threw
    /\ UNCHANGED fragment
    /\ UNCHANGED <<animDue, lights, uniforms, created, glareMaterials, updates, keyframes>>

\* The display frame's animate() callback begins:
\* requestAnimationFrame(() => this.animate()) is its first statement.
AnimateStart ==
    /\ pc = "idle"
    /\ animDue
    /\ animDue' = FALSE
    /\ requested' = TRUE
    /\ UNCHANGED fragment
    /\ pc' = AnimateOrder[1]
    /\ UNCHANGED <<lights, uniforms, created, glareMaterials, camera, frameLog, updates,
                   keyframes>>
    /\ UNCHANGED <<scene, viewport, size, drawn, threw>>

UpdateDayNightCycle(t) ==
    /\ pc = "dayNight"
    /\ pc' = StepAfter("dayNight")
    /\ lights' = DayNightLights(lights, t)
    /\ uniforms' = PropagateSun(uniforms, glareMaterials, lights'.main.intensity)
    /\ frameLog' = Append(frameLog, "dayNight")
    /\ updates' = [t |-> t, n |-> IF updates.t = t THEN Min(updates.n + 1, 2) ELSE 1]
    /\ UNCHANGED <<animDue, created, glareMaterials, camera, keyframes>>
    /\ UNCHANGED sceneVars

UpdateGlare ==
    /\ pc = "glare"
    /\ pc' = StepAfter("glare")
    /\ uniforms' = updateGlare(uniforms, glareMaterials, camera)
    /\ frameLog' = Append(frameLog, "glare")
    /\ UNCHANGED <<animDue, lights, created, glareMaterials, camera, updates, keyframes>>
    /\ UNCHANGED sceneVars

\* updateAnimations after the lighting update: coffee steam and the clock.
Animations ==
    /\ pc = "animations"
    /\ pc' = StepAfter("animations")
    /\ frameLog' = Append(frameLog, "animations")
    /\ UNCHANGED <<animDue, lights, uniforms, created, glareMaterials, camera, updates,
                   keyframes>>
    /\ UNCHANGED sceneVars

Render ==
    /\ pc = "render"
    /\ pc' = StepAfter("render")
    /\ render
    /\ UNCHANGED <<animDue, lights, uniforms, created, glareMaterials, updates, keyframes>>
    /\ UNCHANGED <<requested, fragment>>

\* GSAP's ticker callback of the display frame, between the other callbacks.
FrameTick ==
    /\ pc = "idle"
    /\ GsapTick
    /\ frameLog' = Append(frameLog, "tick")
    /\ UNCHANGED <<pc, animDue, lights, uniforms, created, glareMaterials, camera, updates,
                   keyframes>>
    /\ UNCHANGED sceneVars

\* The idle timeout's callback, between the other callbacks.
FrameTimerFire ==
    /\ pc = "idle"
    /\ \E id \in TimerIds : TimerFire(id)
    /\ UNCHANGED <<lightVars, sceneVars>>

\* The next display frame begins: GSAP's ticker callback is due again, and
\* animate() if the frame before registered it.
NextFrame ==
    /\ pc = "idle"
    /\ ~animDue
    /\ Advance
    /\ animDue' = requested
    /\ requested' = FALSE
    /\ UNCHANGED fragment
    /\ frameLog' = <<>>
    /\ drawn' = NoDraw
    /\ UNCHANGED <<pc, lights, uniforms, created, glareMaterials, camera, updates, keyframes>>
    /\ UNCHANGED <<scene, viewport, size, threw>>

LightNext ==
    \/ CreateGlareMaterial /\ UNCHANGED hintVars
    \/ WireManagers
    \/ InitRender /\ UNCHANGED hintVars
    \/ AnimateStart /\ UNCHANGED hintVars
    \/ \E t \in ClockTimes : UpdateDayNightCycle(t) /\ UNCHANGED hintVars
    \/ UpdateGlare /\ UNCHANGED hintVars
    \/ Animations /\ UNCHANGED hintVars
    \/ Render /\ UNCHANGED hintVars
    \/ FrameTick
    \/ FrameTimerFire
    \/ NextFrame

\* ------------------------------------------------- the initialization run
\* new SceneManager(), before init(): no composer, no lights, nothing sized.
NoPost ==
    [composer |-> FALSE, passes |-> <<>>, outlinePass |-> FALSE, overlay |-> {},
     warned |-> FALSE]
Null == [object |-> 0]
NoLights == [l \in DOMAIN setupLights |-> Null]

Constructed ==
    /\ pc = "sceneInit"
    /\ animDue = FALSE
    /\ lights = NoLights
    /\ uniforms = [id \in MatIds |-> NoMat]
    /\ created = 0
    /\ glareMaterials = <<>>
    /\ camera = InitialCam
    /\ frameLog = <<>>
    /\ updates = [t |-> NoTime, n |-> 0]
    /\ keyframes = dayNightKeyframes
    /\ scene = [post |-> NoPost, pixelRatio |-> StandardRatio,
                environment |-> NoTexture, children |-> 0]
    /\ viewport = InitialViewport
    /\ size = [aspect |-> 0, canvas |-> NoSize, target |-> NoSize, bloom |-> NoSize,
               outline |-> NoSize]
    /\ drawn = NoDraw
    /\ threw = FALSE
    /\ requested = FALSE
    /\ fragment = NoFragment

\* SceneManager.init up to the lighting system: createScene, createCamera,
\* createRenderer, createControls.
CreateScene ==
    /\ pc = "sceneInit"
    /\ pc' = "lighting"
    /\ scene' = [scene EXCEPT !.environment = NoTexture]
    /\ size' = [size EXCEPT !.aspect = viewport,
                            !.canvas = Size(viewport, scene.pixelRatio)]
    /\ UNCHANGED <<animDue, lights, uniforms, created, glareMaterials, camera, frameLog,
                   updates, keyframes>>
    /\ UNCHANGED <<viewport, drawn, threw, requested, fragment>>

\* new LightingSystem(renderer, scene).init(): createEnvironmentMap assigns
\* scene.environment, setupLights builds the rig.
LightingInit ==
    /\ pc = "lighting"
    /\ pc' = "postProcessing"
    /\ scene' = [scene EXCEPT !.environment = createEnvironmentMap]
    /\ lights' = setupLights
    /\ UNCHANGED <<animDue, uniforms, created, glareMaterials, camera, frameLog, updates,
                   keyframes>>
    /\ UNCHANGED <<viewport, size, drawn, threw, requested, fragment>>

\* setupPostProcessing with the classes the page loaded (passAvailable: the
\* OutlinePass class is among them).
SetupPostProcessing ==
    /\ pc = "postProcessing"
    /\ pc' = "floor"
    /\ \E loaded \in Loadouts :
           /\ setupPostProcessing(loaded, overlayUniforms).outlinePass = passAvailable
           /\ scene' = [scene EXCEPT !.post = setupPostProcessing(loaded, overlayUniforms)]
    /\ size' = InitialSizes(scene'.post, viewport, scene.pixelRatio)
    /\ UNCHANGED <<animDue, lights, uniforms, created, glareMaterials, camera, frameLog,
                   updates, keyframes>>
    /\ UNCHANGED <<viewport, drawn, threw, requested, fragment>>

\* createFloor: a MeshStandardMaterial with envMapIntensity, added to the
\* scene; init() then returns to Portfolio3D.init.
CreateFloor ==
    /\ pc = "floor"
    /\ pc' = "create"
    /\ scene' = [scene EXCEPT !.children = @ + FloorMeshes]
    /\ UNCHANGED <<animDue, lights, uniforms, created, glareMaterials, camera, frameLog,
                   updates, keyframes>>
    /\ UNCHANGED <<viewport, size, drawn, threw, requested, fragment>>

\* createAllObjects: a factory builds an object with environment-lit
\* materials and addToScene adds it.
CreateObject ==
    /\ pc = "create"
    /\ scene.children < FloorMeshes + MaxMeshes
    /\ scene' = [scene EXCEPT !.children = @ + 1]
    /\ UNCHANGED <<pc, animDue, lights, uniforms, created, glareMaterials, camera,
                   frameLog, updates, keyframes>>
    /\ UNCHANGED <<viewport, size, drawn, threw, requested, fragment>>

\* The page as deployed, on a display of one device pixel per CSS pixel.
Init == HintInit /\ LightInit /\ SceneInit(Loadouts, {overlayUniforms}, {StandardRatio})

\* The hint scheduler under user input.
Next == HintNext /\ UNCHANGED <<lightVars, sceneVars>>
Spec == Init /\ [][Next]_vars

\* A draw call rasterizes a fragment of a glare plane under some uniform
\* values, and the fragment shader runs on it.
Rasterize ==
    /\ ~fragment.shaded
    /\ \E f \in Fragments : fragment' = f
    /\ UNCHANGED <<scene, viewport, size, drawn, threw, requested>>

ShadeFragment ==
    /\ fragment.shaded
    /\ fragment.alpha = NoAlpha
    /\ fragment' = [fragment EXCEPT !.alpha = Alpha(fragment)]
    /\ UNCHANGED <<scene, viewport, size, drawn, threw, requested>>

GlareNext ==
    \/ Rasterize /\ UNCHANGED <<hintVars, lightVars>>
    \/ ShadeFragment /\ UNCHANGED <<hintVars, lightVars>>

\* The fragment shader over uniform values and GPUs.
SpecGlare == Init /\ [][GlareNext]_vars

\* The hint scheduler when the host keeps running what is due:
\* initialization finishes, frames go by, due timeouts fire, and the ticker
\* runs in every frame. The last conjunct is WF_vars(GsapTick) written out,
\* with GsapTick's guard for its ENABLED.
TickEnabled == phase = "running" /\ tickDue /\ (tweens = <<>> \/ CanArm(HintState))
Ticks == last' = "tick"
Fairness ==
    /\ WF_vars(Wire /\ UNCHANGED <<lightVars, sceneVars>>)
    /\ WF_vars(Advance /\ UNCHANGED <<lightVars, sceneVars>>)
    /\ WF_vars((\E id \in TimerIds : TimerFire(id)) /\ UNCHANGED <<lightVars, sceneVars>>)
    /\ ([]<>~TickEnabled \/ []<><<Ticks>>_vars)
SpecFair == Spec /\ Fairness

\* The frame loop and the lighting system, without user input.
SpecLight == Init /\ [][LightNext]_vars

\* The frame loop over the post-processing chain, with window resizes, at one
\* wall-clock reading; the overlay replacement is the deployed one or one that
\* omits a uniform, the display of any pixel ratio.
SceneTime == 12 * MinutesPerHour

SceneNext ==
    \/ WireManagers
    \/ InitRender /\ UNCHANGED hintVars
    \/ AnimateStart /\ UNCHANGED hintVars
    \/ UpdateDayNightCycle(SceneTime) /\ UNCHANGED hintVars
    \/ UpdateGlare /\ UNCHANGED hintVars
    \/ Animations /\ UNCHANGED hintVars
    \/ Render /\ UNCHANGED hintVars
    \/ FrameTick
    \/ FrameTimerFire
    \/ NextFrame
    \/ Resize /\ UNCHANGED <<hintVars, lightVars>>

InitScene ==
    HintInit /\ LightInit /\ SceneInit(Loadouts, {overlayUniforms} \cup Omissions, PixelRatios)

SpecScene == InitScene /\ [][SceneNext]_vars

\* The same loop under user input, on a page that has not loaded the
\* post-processing classes.
FrameClickObject(obj) ==
    /\ pc = "idle"
    /\ ClickObject(obj)
    /\ UNCHANGED <<lightVars, sceneVars>>

FrameClickEmpty ==
    /\ pc = "idle"
    /\ ClickEmpty
    /\ UNCHANGED <<lightVars, sceneVars>>

DegradedNext ==
    \/ SceneNext
    \/ \E obj \in Objects : FrameClickObject(obj)
    \/ FrameClickEmpty

InitDegraded ==
    HintInit /\ LightInit /\ SceneInit({"none"}, {overlayUniforms}, {StandardRatio})

SpecDegraded == InitDegraded /\ [][DegradedNext]_vars

\* The whole initialization run, from new SceneManager() on, then the frame
\* loop at one wall-clock reading.
BootNext ==
    \/ CreateScene /\ UNCHANGED hintVars
    \/ LightingInit /\ UNCHANGED hintVars
    \/ SetupPostProcessing /\ UNCHANGED hintVars
    \/ CreateFloor /\ UNCHANGED hintVars
    \/ CreateObject /\ UNCHANGED hintVars
    \/ CreateGlareMaterial /\ UNCHANGED hintVars
    \/ SceneNext

InitBoot == HintInit /\ Constructed

SpecBoot == InitBoot /\ [][BootNext]_vars

\* The frame loop of a build whose keyframe table is the deployed one, one
\* with two hours out of order, or one with an hour twice.
UnsortedKeyframes ==
    [dayNightKeyframes EXCEPT ![2] = dayNightKeyframes[3], ![3] = dayNightKeyframes[2]]
DuplicateKeyframes == [dayNightKeyframes EXCEPT ![3].hour = dayNightKeyframes[2].hour]
KeyframeTables == {dayNightKeyframes, UnsortedKeyframes, DuplicateKeyframes}

InitTables ==
    /\ HintInit
    /\ \E table \in KeyframeTables : LightInitWith(table)
    /\ SceneInit({"full"}, {overlayUniforms}, {StandardRatio})

SpecTables == InitTables /\ [][LightNext]_vars

\* ------------------------------------------------------------ hint scheduler
FadingIn == FadeIns # {}
FadingOut == FadeOuts # {}
IdleActive == hintActive /\ enabled /\ FadeIns = {} /\ FadeOuts = {}
OneFullTimer(tm, h) == h \in TimerIds /\ Pending(tm) = {h} /\ tm[h] = HINT_DELAY
ResetEnds == \E i \in OfKind(tweens, "reset") : tweens[i].elapsed + FrameMs >= ZoomMs
FadeInEnds == \E i \in FadeIns : tweens[i].elapsed + FrameMs >= FadeInMs

\* C1: at most one fade animation (a fade-in started by showHint or a fade-out
\* started by hideHint) is animating outlinePass.edgeStrength in any state.
C1_SingleFade == Cardinality(FadeIns \cup FadeOuts) <= 1

\* C2: the scheduler is never in two of fading-in, idle-active and fading-out
\* at once.
C2_OneStateAtATime ==
    /\ ~(FadingIn /\ FadingOut)
    /\ ~(FadingIn /\ IdleActive)
    /\ ~(FadingOut /\ IdleActive)

\* C3: at most one hint timeout is pending, it is the one hintTimer holds, and
\* the timeout that fires and calls showHint is that one, never a cleared one.
C3_SingleShotTimer ==
    /\ [](Cardinality(Pending(timeouts)) <= 1 /\ Pending(timeouts) \subseteq {hintTimer})
    /\ [][last' = "timerFire" =>
            hintTimer \in TimerIds /\ timeouts[hintTimer] = 0 /\ Pending(timeouts') = {}]_vars

\* A selection re-armed the timer while the previous timeout was still pending.
C3_Witness == last = "select" /\ cancelled /\ Cardinality(Pending(timeouts)) = 1

\* C4 as stated: whenever the idle timer fires, the pass becomes enabled with
\* edgeStrength 0 and a fade-in towards EdgeTarget begins.
C4_TimerFireShows ==
    [][last' = "timerFire" =>
         enabled' /\ hintActive' /\ edgeStrength' = 0 /\ OfKind(tweens', "fadeIn") # {}]_vars

\* C4 amended: whenever the idle timer fires while the pass is wired and no
\* object is zoomed, the pass becomes enabled with edgeStrength 0 and one
\* fade-in begins; every fade-in starts from 0; and a fade-in that ends with no
\* selection made since the fire (the hint still active, no fade-out started)
\* leaves edgeStrength at EdgeTarget with the hint active, the pass enabled and
\* no fade left (idle-active).
C4_FireStep ==
    (last' = "timerFire" /\ wired /\ zoomed = NoObj) =>
        (/\ enabled' /\ hintActive' /\ edgeStrength' = 0
         /\ Cardinality(OfKind(tweens', "fadeIn")) = 1)

C4_FadeInEndStep ==
    (last' = "tick" /\ FadeInEnds /\ hintActive /\ FadeOuts = {}) =>
        (/\ edgeStrength' = EdgeTarget /\ hintActive' /\ enabled'
         /\ OfKind(tweens', "fadeIn") = {} /\ OfKind(tweens', "fadeOut") = {})

C4_TimerFireShowsUnzoomed ==
    /\ [](\A i \in FadeIns : tweens[i].init => tweens[i].from = 0)
    /\ [][C4_FireStep /\ C4_FadeInEndStep]_vars

\* The fade-in has run to its end: the scheduler is idle-active at EdgeTarget.
C4_Witness == last = "tick" /\ IdleActive /\ edgeStrength = EdgeTarget

\* C5: after a selection made mid fade-in at edgeStrength v, edgeStrength never
\* rises again while the hint is active, the hint ends with the pass disabled
\* and edgeStrength 0, and the selection leaves one timeout with the full delay.
C5_NoRise ==
    selAt # NoSel =>
        (/\ edgeStrength' <= edgeStrength
         /\ (~hintActive' => (~enabled' /\ edgeStrength' = 0)))

C5_Rearm == (last' = "select" /\ MidFadeIn) => OneFullTimer(timeouts', hintTimer')

C5_FadeOutFromCurrent == [][C5_NoRise /\ C5_Rearm]_vars

\* C6: every accepted selection, and every camera-reset completion, leaves
\* exactly one timeout pending, with the full HINT_DELAY remaining.
C6_SelectStep == last' = "select" => OneFullTimer(timeouts', hintTimer')
C6_ResetEndStep == (last' = "tick" /\ ResetEnds) => OneFullTimer(timeouts', hintTimer')

C6_RestartOnSelectAndReset == [][C6_SelectStep /\ C6_ResetEndStep]_vars

\* A reset completion cancelled the timeout a selection had armed and re-armed.
C6_Witness ==
    last = "tick" /\ cancelled /\ zoomed = NoObj /\ OneFullTimer(timeouts, hintTimer)

\* ------------------------------------------------- frame loop and lighting
EndsWith(log, tail) ==
    /\ Len(log) >= Len(tail)
    /\ \A i \in DOMAIN tail : log[Len(log) - Len(tail) + i] = tail[i]
Renders == Len(frameLog') = Len(frameLog) + 1 /\ frameLog'[Len(frameLog')] = "render"
UpdatesDayNight == pc = "dayNight" /\ pc' # pc
Created == 1..created
OtherSlotsKept ==
    \A id \in Created : \A k \in 2..4 : uniforms'[id].intens[k] = uniforms[id].intens[k]

C8_CameraUniformFresh ==
    pc \in {"animations", "render"} => \A id \in Created : uniforms[id].cam = camera

\* Two materials, refreshed by the second lighting update in a row.
C8_Witness ==
    /\ pc = "render" /\ created >= 2 /\ updates.n = 2
    /\ \A id \in Created : uniforms[id].cam = camera

\* C9 as stated: a day/night update leaves slot 0 of every glare uniform set
\* equal to the sun intensity it computed, and slots 1 to 3 as they were.
C9_WindowSlotIsSun ==
    [][UpdatesDayNight =>
           /\ \A id \in Created : uniforms'[id].intens[1] = lights'.main.intensity
           /\ OtherSlotsKept]_vars

\* C9 amended: a day/night update leaves slot 0 of every glare uniform set
\* equal to the sun intensity it computed rounded to single precision (the
\* slots are a Float32Array), and slots 1 to 3 as they were.
C9_WindowSlotIsSunAsSingle ==
    [][UpdatesDayNight =>
           /\ \A id \in Created : uniforms'[id].intens[1] = Fround(lights'.main.intensity)
           /\ OtherSlotsKept]_vars

\* An update has written a sun intensity that is no single into two sets.
C9_Witness ==
    /\ pc = "glare" /\ created >= 2
    /\ lights.main.intensity # Fround(lights.main.intensity)
    /\ \A id \in Created : uniforms[id].intens[1] = Fround(lights.main.intensity)

\* C10: a day/night update at the wall-clock time of the update before it, with
\* no material created in between, changes neither the rig (sun colour and
\* intensity, ambient and hemisphere intensity) nor any glare intensity slot.
C10_DayNightIdempotent ==
    [][(UpdatesDayNight /\ updates.t # NoTime /\ updates'.t = updates.t) =>
           /\ lights' = lights
           /\ \A id \in Created : uniforms'[id].intens = uniforms[id].intens]_vars

\* A second update in a row ran at a time strictly inside a keyframe interval.
C10_Witness ==
    /\ updates.n = 2 /\ created >= 1
    /\ Factor(dayNightKeyframes, updates.t) > 0

\* Wall-clock readings of the scenarios, in minutes.
Noon == 12 * MinutesPerHour
SixAm == 6 * MinutesPerHour
OnKeyframe(kf, i, t) == kf[i].hour < 24 /\ t = kf[i].hour * MinutesPerHour
StrictlyIncreasing(kf) == \A i \in 1..(Len(kf) - 1) : kf[i].hour < kf[i + 1].hour
Closed(kf) ==
    /\ kf[1].hour = 0
    /\ kf[Len(kf)].hour = 24
    /\ kf[Len(kf)].color = kf[1].color
    /\ kf[Len(kf)].intensity = kf[1].intensity

\* C11: a day/night update at the hour of a keyframe before hour 24 leaves the
\* sun with exactly that keyframe's colour and intensity, and the value the
\* last interval reaches at hour 24 (factor 1) is the value of an update at
\* hour 0.
C11_OnKeyframeStep ==
    UpdatesDayNight =>
        \A i \in DOMAIN keyframes :
            OnKeyframe(keyframes, i, updates'.t) =>
                (/\ lights'.main.color = setHex(keyframes[i].color)
                 /\ lights'.main.intensity = keyframes[i].intensity)

C11_LoopCloses ==
    LET n == Len(keyframes)
        atZero == DayNightLights(lights, 0).main
    IN /\ Mix(keyframes[n - 1].intensity, keyframes[n].intensity, F64Scale)
              = atZero.intensity
       /\ lerp(setHex(keyframes[n - 1].color), setHex(keyframes[n].color), F64Scale)
              = atZero.color

C11_ExactOnKeyframes == [][C11_OnKeyframeStep]_vars /\ []C11_LoopCloses

\* An update ran at the hour of a keyframe inside the day and changed the sun.
C11_Witness ==
    /\ pc = "glare"
    /\ \E i \in 2..(Len(keyframes) - 1) :
           /\ OnKeyframe(keyframes, i, updates.t)
           /\ lights.main.intensity = keyframes[i].intensity
    /\ lights.main.intensity # setupLights.main.intensity

\* C12 as stated: at 12:00 the time is the hour of a keyframe of the table and
\* the update leaves the sun with that keyframe's intensity.
C12_NoonOnKeyframe ==
    [][(UpdatesDayNight /\ updates'.t = Noon) =>
           \E i \in DOMAIN keyframes :
               /\ keyframes[i].hour * MinutesPerHour = Noon
               /\ lights'.main.intensity = keyframes[i].intensity]_vars

\* C12 amended: no keyframe is at hour 12; at 12:00 the time is strictly
\* between the keyframes of hour 10 (1.2) and hour 16 (1.1), and the update
\* leaves the sun at 1.2 + (1.1 - 1.2) * (12 - 10) / (16 - 10), strictly
\* between the two stored intensities.
C12_NoonStep ==
    (UpdatesDayNight /\ updates'.t = Noon) =>
        LET b == Bracket(keyframes, Noon)
        IN /\ keyframes[b[1]].hour = 10 /\ keyframes[b[1]].intensity = Dec(1200)
           /\ keyframes[b[2]].hour = 16 /\ keyframes[b[2]].intensity = Dec(1100)
           /\ lights'.main.intensity
                  = Dec(1200) + ((Dec(1100) - Dec(1200)) * ((2 * F64Scale) \div 6))
                                    \div F64Scale
           /\ Dec(1100) < lights'.main.intensity
           /\ lights'.main.intensity < Dec(1200)

C12_NoonInterpolated ==
    /\ [](\A i \in DOMAIN keyframes : keyframes[i].hour * MinutesPerHour # Noon)
    /\ [][C12_NoonStep]_vars

\* An update ran at 12:00.
C12_Witness ==
    /\ pc = "glare" /\ updates.t = Noon
    /\ lights.main.intensity < Dec(1200) /\ lights.main.intensity > Dec(1100)

\* C13: at 6:00 the bracketing keyframes are (hour 5, 0.4) and (hour 7, 0.8)
\* and the update leaves the sun at 0.6, the value
\* start + (end - start) * (t - start.hour) / (end.hour - start.hour).
C13_SixAmStep ==
    (UpdatesDayNight /\ updates'.t = SixAm) =>
        LET b == Bracket(keyframes, SixAm)
            start == keyframes[b[1]]
            end == keyframes[b[2]]
        IN /\ start.hour = 5 /\ start.intensity = Dec(400)
           /\ end.hour = 7 /\ end.intensity = Dec(800)
           /\ lights'.main.intensity = Dec(600)
           /\ lights'.main.intensity
                  = start.intensity
                      + ((end.intensity - start.intensity)
                           * (((SixAm - start.hour * MinutesPerHour) * F64Scale)
                                \div ((end.hour - start.hour) * MinutesPerHour)))
                          \div F64Scale

C14_TableClosedAndFixed ==
    /\ [](StrictlyIncreasing(keyframes) /\ Closed(keyframes))
    /\ [][keyframes' = keyframes]_vars

\* Materials were created and updates run, and the table is as constructed.
C14_Witness ==
    /\ created = MaxMaterials /\ updates.n = 2 /\ pc = "idle"
    /\ keyframes = dayNightKeyframes

\* ------------------------------------------ post-processing chain and resize
PassSizes == {size.target, size.bloom, size.outline} \ {NoSize}
DrawsFrame == Len(frameLog') = Len(frameLog) + 1 /\ frameLog'[Len(frameLog')] \in {"render", "throw"}
Resizes == viewport' # viewport
WiresManagers == phase = "boot" /\ phase' = "running"
TimeoutFires ==
    /\ last' = "timerFire"
    /\ \E id \in TimerIds : timeouts[id] = 0 /\ timeouts'[id] = NotPending
AnimateBegins == pc = "idle" /\ pc' # "idle"
Missing(post) == {RenderWrites[i] : i \in DOMAIN RenderWrites} \ post.overlay

\* C15: in every state (so after every resize, before the next frame is
\* rendered) the camera aspect, the renderer's drawing buffer and every pass's
\* targets are of the current viewport, and all passes' targets have one size.
C15_ResizeKeepsSizesTogether ==
    /\ size.aspect = viewport
    /\ size.canvas[1] = viewport
    /\ \A sz \in PassSizes : sz[1] = viewport
    /\ Cardinality(PassSizes) <= 1

\* C16, what holds of a page without the post-processing classes: the warning
\* was logged, there is no composer, no pass and no outline pass, nothing ever
\* throws, the hint is never shown, every frame is drawn by the renderer, and a
\* resize brings camera and renderer to the new viewport.
C16_NoChain ==
    /\ scene.post.warned /\ ~scene.post.composer /\ scene.post.passes = <<>>
    /\ ~scene.post.outlinePass /\ ~wired /\ PassSizes = {}
    /\ ~threw /\ ~enabled /\ ~hintActive /\ FadeIns = {} /\ FadeOuts = {}

C16_DirectRender == DrawsFrame => (drawn'.path = "renderer" /\ ~drawn'.threw)

C16_ResizeStep ==
    Resizes => (size'.aspect = viewport' /\ size'.canvas = Size(viewport', scene.pixelRatio))

\* C16 as stated: ... and the hint timer is never started.
C16_DegradedTimerNeverStarted ==
    /\ []C16_NoChain
    /\ [][C16_DirectRender /\ C16_ResizeStep]_vars
    /\ [](hintTimer = NoTimer /\ Pending(timeouts) = {})

\* C16 amended: ... initialization does not start the hint timer, and the
\* firing of a timer that a selection or a reset completion started changes
\* nothing but the timeout table.
C16_WireStep == WiresManagers => (hintTimer' = NoTimer /\ Pending(timeouts') = {})

C16_FireStep ==
    TimeoutFires =>
        UNCHANGED <<enabled, edgeStrength, hintActive, hintTimer, zoomed, controlsEnabled,
                    tweens>>

C16_DegradedHintNeverShows ==
    /\ []C16_NoChain
    /\ [][C16_DirectRender /\ C16_ResizeStep /\ C16_WireStep /\ C16_FireStep]_vars

\* A timer that a selection started has fired, in a frame drawn by the
\* renderer after a resize.
C16_Witness ==
    /\ ~scene.post.composer /\ last = "timerFire" /\ hintTimer # NoTimer
    /\ viewport # InitialViewport /\ drawn.path = "renderer"

\* C17: no day/night update interpolates over a table whose hours are not
\* strictly increasing (such a build fails at startup, before any frame).
C17_NoUpdateOverMalformed == [][UpdatesDayNight => StrictlyIncreasing(keyframes)]_vars

\* C18: once a step of the frame callback has thrown, no frame callback runs.
C18_ThrowHaltsLoop == [][threw => ~AnimateBegins]_vars

\* C19: the overlay material of the outline pass declares maskTexture,
\* edgeTexture1, edgeTexture2, patternTexture, edgeStrength, edgeGlow and
\* usePatternTexture, which are the uniforms the pass's render assigns; so no
\* render throws, and every render with the pass enabled draws the overlay.
C19_Declared ==
    scene.post.outlinePass =>
        /\ Missing(scene.post) = {}
        /\ {"maskTexture", "edgeTexture1", "edgeTexture2", "patternTexture",
            "edgeStrength", "edgeGlow", "usePatternTexture"} \subseteq scene.post.overlay

C19_EnabledDraw ==
    (DrawsFrame /\ enabled) => (drawn'.upstream /\ drawn'.overlay /\ ~drawn'.threw)

C19_OverlayDeclaresAllWrites == [](C19_Declared /\ ~threw) /\ [][C19_EnabledDraw]_vars

\* A frame was drawn with the pass enabled, overlay included.
C19_Witness == enabled /\ drawn.path = "composer" /\ drawn.upstream /\ drawn.overlay

\* C20: no render leaves the outline pass's mask and edge renders done and its
\* overlay not drawn (a replacement that omits a uniform either fails at
\* construction or is flagged at the first assignment).
C20_NoSkippedOverlay == ~(drawn.upstream /\ ~drawn.overlay)

\* ---------------------------------------------------- initialization claims
AddsMesh == scene'.children > scene.children
EnvironmentAssigned == scene.environment # NoTexture

\* C21
\* In every initialization run scene.environment is already assigned when
\* render is first called (and at every later render) and when the floor or
\* an object factory adds a mesh with an environment-lit material; once
\* assigned it is never taken away.
C21_EnvironmentBeforeUse ==
    [][/\ DrawsFrame => EnvironmentAssigned
       /\ AddsMesh => EnvironmentAssigned
       /\ EnvironmentAssigned => scene'.environment = scene.environment]_vars

\* The factories have added their objects and the forced first render has
\* drawn them under the assigned environment.
C21_Witness ==
    /\ scene.children = FloorMeshes + MaxMeshes
    /\ scene.environment = createEnvironmentMap
    /\ drawn.path # "none"
    /\ pc = "dayNight"
    /\ updates.n = 0

\* --------------------------------------------------------- shader claims
Shaded == fragment.shaded /\ fragment.alpha # NoAlpha

DayMinutes == 0..(MinutesPerDay - 1)
Fallback(kf) == <<1, Len(kf)>>

\* The pair the scan leaves at minute t is a hit of the scan, not the
\* fallback: neighbours that bracket t, over a non-empty span, with a factor
\* in [0, 1).
Brackets(kf, t) ==
    LET b == Bracket(kf, t)
    IN /\ b # Fallback(kf)
       /\ b[2] = b[1] + 1
       /\ kf[b[1]].hour * MinutesPerHour <= t
       /\ t < kf[b[2]].hour * MinutesPerHour
       /\ kf[b[2]].hour - kf[b[1]].hour # 0
       /\ 0 <= Factor(kf, t)
       /\ Factor(kf, t) < F64Scale

\* C23
\* For every wall-clock reading of the day the keyframe scan finds a
\* bracketing pair of neighbours, the divisor is not zero, the factor is in
\* [0, 1) and the fallback pair (first, last) is not the pair used; every
\* update interpolates between the pair that brackets its reading. The table
\* never changes, so the readings of the whole day are gone through once,
\* before the first frame.
BeforeFirstFrame == pc = "create" /\ created = 0
C23_AllMinutes == BeforeFirstFrame => \A t \in DayMinutes : Brackets(keyframes, t)

C23_UpdateStep ==
    /\ keyframes' = keyframes
    /\ UpdatesDayNight =>
        \E i \in 1..(Len(keyframes) - 1) :
            /\ keyframes[i].hour * MinutesPerHour <= updates'.t
            /\ updates'.t < keyframes[i + 1].hour * MinutesPerHour
            /\ lights'.main.intensity =
                   Mix(keyframes[i].intensity, keyframes[i + 1].intensity,
                       Factor(keyframes, updates'.t))

C23_ScanAlwaysBrackets == []C23_AllMinutes /\ [][C23_UpdateStep]_vars

\* An update ran in the last interval, the one that ends at the hour-24
\* sentinel.
C23_Witness ==
    /\ pc = "glare"
    /\ Bracket(keyframes, updates.t) = <<Len(keyframes) - 1, Len(keyframes)>>
    /\ lights.main.intensity = keyframes[Len(keyframes) - 1].intensity

AmbientOf(sun) == Dec(200) + (sun * Dec(250)) \div F64Scale
HemisphereOf(sun) == Dec(100) + (sun * Dec(250)) \div F64Scale
SunRange == 0..(2 * F64Scale)

\* C24
\* After every day/night update ambient intensity is 0.2 + 0.25 * sun and
\* hemisphere intensity 0.1 + 0.25 * sun; neither decreases when the sun's
\* intensity rises; after an update ambient is within [0.25, 0.5] and
\* hemisphere within [0.15, 0.4].
C24_Formulas ==
    UpdatesDayNight =>
        /\ lights'.ambient.intensity = AmbientOf(lights'.main.intensity)
        /\ lights'.hemisphere.intensity = HemisphereOf(lights'.main.intensity)

C24_Monotone ==
    BeforeFirstFrame =>
        \A sun \in SunRange :
            /\ AmbientOf(sun) <= AmbientOf(sun + 1)
            /\ HemisphereOf(sun) <= HemisphereOf(sun + 1)

C24_Ranges ==
    /\ Dec(250) <= lights.ambient.intensity
    /\ lights.ambient.intensity <= Dec(500)
    /\ Dec(150) <= lights.hemisphere.intensity
    /\ lights.hemisphere.intensity <= Dec(400)

C24_FillLightsFollowSun == [][C24_Formulas]_vars /\ []C24_Monotone /\ []C24_Ranges

\* An update at 10:00, the brightest keyframe, has left ambient at 0.5 and
\* hemisphere at 0.4 (to the last digit of the model's numbers).
C24_Witness ==
    /\ pc = "glare"
    /\ lights.main.intensity = Dec(1200)
    /\ lights.ambient.intensity = Dec(500)
    /\ lights.hemisphere.intensity >= Dec(400) - 1

LightNames == DOMAIN setupLights
RigBuilt == \A n \in LightNames : lights[n] # Null
Positioned == {"main", "fill", "rim"}

\* C25
\* The five lights are constructed once, by setupLights during
\* initialization, and each name keeps its object from then on; a day/night
\* update changes nothing of the rig but the sun's colour and intensity, the
\* ambient intensity and the hemisphere intensity, and no step moves a light
\* or touches the fill and rim lights.
C25_BuiltInInit == (~RigBuilt /\ lights' # lights) => (pc = "lighting" /\ lights' = setupLights)

C25_SameObjects ==
    RigBuilt =>
        /\ \A n \in LightNames : lights'[n].object = lights[n].object
        /\ \A n \in Positioned : lights'[n].position = lights[n].position
        /\ lights'.fill = lights.fill
        /\ lights'.rim = lights.rim
        /\ lights'.ambient.color = lights.ambient.color
        /\ lights'.hemisphere.color = lights.hemisphere.color

C25_OnlyUpdatesChange == (RigBuilt /\ lights' # lights) => UpdatesDayNight

C25_RigMutatedInPlace ==
    [][C25_BuiltInInit /\ C25_SameObjects /\ C25_OnlyUpdatesChange]_vars

\* An update has changed the sun, the ambient and the hemisphere light of the
\* rig built during initialization.
C25_Witness ==
    /\ pc = "glare"
    /\ lights.main.intensity # setupLights.main.intensity
    /\ lights.ambient.intensity # setupLights.ambient.intensity
    /\ lights.hemisphere.intensity # setupLights.hemisphere.intensity
    /\ lights.fill = setupLights.fill
    /\ scene.children > FloorMeshes

\* ------------------------------------------------- hint claims, continued
Resets == OfKind(tweens, "reset")
StaleResetEnds ==
    /\ last' = "tick"
    /\ \E i \in Resets : tweens[i].stale /\ tweens[i].elapsed + FrameMs >= ZoomMs

\* C26
\* When a reset animation that was started before the latest zoomToObject
\* call completes, currentZoomedObject stays the object of that call and the
\* controls stay disabled; the hint is not shown while that object is zoomed.
C26_StaleResetStep == StaleResetEnds => (zoomed' = zoomed /\ zoomed' # NoObj /\ ~controlsEnabled')

C26_StaleResetKeepsZoom == [][C26_StaleResetStep]_vars

FadeOutEnds ==
    /\ last' = "tick"
    /\ \E i \in FadeOuts : tweens[i].elapsed + FrameMs >= FadeOutMs
ShowHintPasses == last' = "timerFire" /\ wired /\ zoomed = NoObj
ShowHintReturns == last' = "timerFire" /\ ~(wired /\ zoomed = NoObj)

\* C27
\* Between handlers outlinePass.enabled equals hintActive; the pass becomes
\* enabled exactly in a showHint that passes its guard and disabled exactly
\* at the completion of a fade-out; a showHint called while an object is
\* zoomed leaves the pass as it was.
C27_EnabledIsActive == enabled = hintActive

C27_EnableStep ==
    /\ (~enabled /\ enabled') => ShowHintPasses
    /\ (enabled /\ ~enabled') => FadeOutEnds
    /\ ShowHintPasses => enabled'
    /\ FadeOutEnds => ~enabled'
    /\ ShowHintReturns => enabled' = enabled

C27_PassFollowsHint == []C27_EnabledIsActive /\ [][C27_EnableStep]_vars

\* A hint was shown and a selection's fade-out has run to its end: the pass is
\* off again, with the edge strength the fade left.
C27_Witness ==
    /\ last = "tick"
    /\ ~enabled
    /\ ~hintActive
    /\ edgeStrength = 0
    /\ FadeOuts = {}
    /\ zoomed # NoObj

ResetInFlight == Resets # {}
Clicked == last \in {"select", "clickEmpty"}

\* C28
\* Once the outline pass is wired there is no state with no zoomed object, no
\* pending idle timer, no camera reset in flight and the hint inactive; so
\* from a state with the pass wired and no object zoomed the hint outline
\* becomes enabled, unless the user interacts before that.
C28_NeverStuck ==
    wired => (zoomed # NoObj \/ Pending(timeouts) # {} \/ ResetInFlight \/ hintActive)

C28_EventuallyHint == (wired /\ zoomed = NoObj) ~> (enabled \/ Clicked)

C28_HintAfterIdle == []C28_NeverStuck /\ C28_EventuallyHint

\* The user interacted and then left the scene unzoomed: the timer started by
\* the reset's completion has fired and the hint is fully on.
C28_Witness ==
    /\ last = "tick"
    /\ zoomed = NoObj
    /\ controlsEnabled
    /\ IdleActive
    /\ edgeStrength = EdgeTarget
    /\ Pending(timeouts) = {}
    /\ tweens = <<>>
    /\ hintTimer # NoTimer
    /\ selAt = NoSel
    /\ events = 0

\* C29
\* The outline pass is disabled from its creation until the idle timer first
\* fires; no timeout fires earlier than 5000 ms after setOutlinePass wired
\* the pass; only showHint, called by a firing timeout, enables the pass.
C29_DisabledAtFirst == (~wired \/ sinceWire < HINT_DELAY) => (~enabled /\ ~hintActive)

C29_FireStep == (wired /\ TimeoutFires) => sinceWire >= HINT_DELAY

C29_OnlyShowHintEnables == (~enabled /\ enabled') => last' = "timerFire"

C29_DisabledUntilFirstFire ==
    []C29_DisabledAtFirst /\ [][C29_FireStep /\ C29_OnlyShowHintEnables]_vars

\* 5000 ms after the wiring the timer has fired for the first time and
\* showHint has enabled the pass.
C29_Witness ==
    /\ last = "timerFire"
    /\ sinceWire = HINT_DELAY
    /\ enabled
    /\ edgeStrength = 0
    /\ Pending(timeouts) = {}
    /\ events = 0

HintOn == enabled /\ hintActive /\ FadeOuts = {}
ClicksEmpty == last' = "clickEmpty" /\ events' = events + 1

\* C30
\* A click that hits no interactive object leaves hintActive,
\* outlinePass.enabled, edgeStrength and the pending idle timer as they were;
\* it changes nothing when no object is zoomed and only starts a camera reset
\* when one is. So a hint that is on and not fading out stays so over every
\* step that is not a click on an interactive object.
C30_EmptyClickStep ==
    ClicksEmpty =>
        /\ hintActive' = hintActive
        /\ enabled' = enabled
        /\ edgeStrength' = edgeStrength
        /\ timeouts' = timeouts
        /\ hintTimer' = hintTimer
        /\ zoomed' = zoomed
        /\ controlsEnabled' = controlsEnabled
        /\ tweens' = IF zoomed # NoObj THEN Append(tweens, Tween("reset")) ELSE tweens

C30_HintStaysStep == (HintOn /\ last' # "select") => HintOn'

C30_EmptyClickKeepsHint == [][C30_EmptyClickStep /\ C30_HintStaysStep]_vars

\* The hint is fully on, nothing is zoomed, and the user has just clicked
\* empty space.
C30_Witness ==
    /\ last = "clickEmpty"
    /\ HintOn
    /\ edgeStrength = EdgeTarget
    /\ zoomed = NoObj
    /\ tweens = <<>>
    /\ Pending(timeouts) = {}

====
